---------------------------- MODULE Spec2Model ----------------------------
(***************************************************************************)
(* Model of homework.py: a bot that polls the homework-review API, checks  *)
(* and formats the answer and forwards notifications to a Telegram chat.   *)
(*                                                                         *)
(* Python values are tagged records [t |-> type, v |-> payload]; a dict's  *)
(* payload is a function from its keys.  A call that may raise returns     *)
(* [ok, val, err].  The Russian string literals of the source are written  *)
(* in Latin transliteration (the parser accepts ASCII strings only); their *)
(* structure (quotes, interpolated parts) is kept.                         *)
(***************************************************************************)
EXTENDS Integers, Sequences, FiniteSets, TLC

VARIABLES PRACTICUM_TOKEN, TELEGRAM_TOKEN, TELEGRAM_CHAT_ID,
          pc, now, started_at, current_timestamp,
          MESSAGE_STATUS, ERROR_CACHE_MESSAGE,
          pending, slept, hist, call

vars == <<PRACTICUM_TOKEN, TELEGRAM_TOKEN, TELEGRAM_CHAT_ID,
          pc, now, started_at, current_timestamp,
          MESSAGE_STATUS, ERROR_CACHE_MESSAGE,
          pending, slept, hist, call>>

(* Bound: number of iterations of main's loop that are explored. *)
MaxPolls == 3

(* Bound: number of iterations explored with the short list of answers. *)
MaxPollsFew == 4

(* Bound: length of the homework lists given to check_response directly. *)
MaxEntries == 2

(* Values int(time.time()) may have at startup. *)
StartTimes == {500, 1500}

RETRY_TIME == 600

HTTP_OK == 200

---------------------------------------------------------------------------
(* Python values *)

PyNone == [t |-> "None", v |-> 0]
PyInt(n) == [t |-> "int", v |-> n]
PyStr(s) == [t |-> "str", v |-> s]
PyList(s) == [t |-> "list", v |-> s]
PyDict(f) == [t |-> "dict", v |-> f]

NoErr == [exc |-> "", arg |-> ""]
NoCall == [fn |-> "", arg |-> PyNone, res |-> [ok |-> TRUE, val |-> PyNone,
                                               err |-> NoErr]]
Ok(x) == [ok |-> TRUE, val |-> x, err |-> NoErr]
Raise(e, a) == [ok |-> FALSE, val |-> PyNone, err |-> [exc |-> e, arg |-> a]]

(* s contains sub as a substring (Python's `sub in s` on str). *)
StrContains(s, sub) ==
    \E i \in 1..(Len(s) - Len(sub) + 1) : SubSeq(s, i, i + Len(sub) - 1) = sub

(* Python truthiness, as used by `or` and all(). *)
Truthy(x) ==
    CASE x.t = "None" -> FALSE
      [] x.t = "int"  -> x.v # 0
      [] x.t = "str"  -> x.v # ""
      [] x.t = "list" -> Len(x.v) > 0
      [] x.t = "dict" -> DOMAIN x.v # {}

(* type(x).__name__ *)
TypeName(x) == IF x.t = "None" THEN "NoneType" ELSE x.t

(* `key in c` for a str key: Ok(bool) or TypeError for a non-container. *)
PyIn(key, c) ==
    CASE c.t = "dict" -> Ok(key \in DOMAIN c.v)
      [] c.t = "list" -> Ok(\E i \in DOMAIN c.v : c.v[i] = PyStr(key))
      [] c.t = "str"  -> Ok(StrContains(c.v, key))
      [] OTHER -> Raise("TypeError", "argument of type '" \o TypeName(c)
                                       \o "' is not iterable")

(* d.get(key) on a dict. *)
dict_get(d, key) == IF key \in DOMAIN d.v THEN d.v[key] ELSE PyNone

(* c[key] for a str key. *)
PyItem(c, key) ==
    CASE c.t = "dict" -> IF key \in DOMAIN c.v THEN Ok(c.v[key])
                         ELSE Raise("KeyError", key)
      [] c.t = "list" -> Raise("TypeError",
                               "list indices must be integers or slices, not str")
      [] c.t = "str"  -> Raise("TypeError", "string indices must be integers")
      [] OTHER -> Raise("TypeError", "'" \o TypeName(c)
                                       \o "' object is not subscriptable")

(* str(x) as used by an f-string, for the scalar values of the model. *)
PyFormat(x) ==
    CASE x.t = "str"  -> x.v
      [] x.t = "int"  -> ToString(x.v)
      [] x.t = "None" -> "None"

(* str(error): KeyError shows the repr of its argument, the others the
   argument itself. *)
str_error(err) ==
    IF err.exc = "KeyError" THEN "'" \o err.arg \o "'" ELSE err.arg

---------------------------------------------------------------------------
(* The functions of homework.py *)

HOMEWORK_STATUSES ==
    [approved  |-> "Rabota proverena: revyueru vsyo ponravilos. Ura!",
     reviewing |-> "Rabota vzyata na proverku revyuerom.",
     rejected  |-> "Rabota proverena: u revyuera est zamechaniya."]

(* What one HTTP exchange can produce: a transport failure inside
   requests.get, or a response with a status code and a body that json()
   parses (to `body`) or not. *)
ApiOutcome(k, code, parses, body) ==
    [k |-> k, code |-> code, parses |-> parses, body |-> body]

(* from_date of the request: current_timestamp or int(time.time()). *)
from_date(ts, clock) == IF Truthy(ts) THEN ts ELSE PyInt(clock)

(* exceptions.py: the exception classes of the repository are a flat set of
   failure kinds, each a direct subclass of Exception; an except clause that
   names one of them matches that kind only. *)
except_matches(class, exc) == exc = class

(* get_api_answer: requests' own exceptions are not GetApiAnswerException,
   so the except clause of line 77 lets them through; timestamp is never
   None after line 67, so line 71 cannot raise. *)
get_api_answer(ts, clock, api) ==
    IF api.k = "transport"
    THEN IF except_matches("GetApiAnswerException", "ConnectionError")
         THEN Raise("GetApiAnswerException", "")
         ELSE Raise("ConnectionError",
                    "HTTPSConnectionPool: Max retries exceeded")
    ELSE IF api.code # HTTP_OK
    THEN Raise("GetApiAnswerException", "Oshibka " \o ToString(api.code))
    ELSE IF ~api.parses
    THEN Raise("JSONDecodeError", "Expecting value: line 1 column 1 (char 0)")
    ELSE Ok(api.body)

(* Variant: an empty homework list is rejected. *)
check_response_nonempty(response) ==
    IF response.t # "dict"
    THEN Raise("TypeError", "Zapros ne sootvetvuet formatu")
    ELSE LET homework == dict_get(response, "homeworks")
             has == PyIn("homeworks", homework)
         IN IF ~has.ok THEN has
            ELSE IF has.val
            THEN Raise("KeyError", "Net klyucha homeworks")
            ELSE IF homework.t # "list" \/ homework.v = <<>>
            THEN Raise("TypeError", "Otvet ne yavlyaetsya spiskom")
            ELSE Ok(homework)

check_response(response) ==
    IF response.t # "dict"
    THEN Raise("TypeError", "Zapros ne sootvetvuet formatu")
    ELSE LET homework == dict_get(response, "homeworks")
             has == PyIn("homeworks", homework)
         IN IF ~has.ok THEN has
            ELSE IF has.val
            THEN Raise("KeyError", "Net klyucha homeworks")
            ELSE IF homework.t # "list"
            THEN Raise("TypeError", "Otvet ne yavlyaetsya spiskom")
            ELSE Ok(homework)

parse_status(homework) ==
    LET hasName == PyIn("homework_name", homework)
        hasStat == PyIn("homework_status", homework)
        homework_name == PyItem(homework, "homework_name")
        homework_status == PyItem(homework, "status")
    IN IF ~hasName.ok THEN hasName
       ELSE IF ~hasName.val
       THEN Raise("KeyError",
                  "Otsutstvuet klyuch \"homework_name\" v otvete API")
       ELSE IF hasStat.val
       THEN Raise("KeyError", "Otsutstvuet klyuch \"status\" v otvete API")
       ELSE IF ~homework_name.ok THEN homework_name
       ELSE IF ~homework_status.ok THEN homework_status
       ELSE IF homework_status.val.t \in {"list", "dict"}
       THEN Raise("TypeError", "unhashable type: '"
                                 \o TypeName(homework_status.val) \o "'")
       ELSE IF ~(homework_status.val.t = "str"
                 /\ homework_status.val.v \in DOMAIN HOMEWORK_STATUSES)
       THEN Raise("UnknownStatusException", "Neizvestnyj status raboty:")
       ELSE Ok(PyStr("Izmenilsya status proverki raboty \""
                     \o PyFormat(homework_name.val) \o "\". "
                     \o HOMEWORK_STATUSES[homework_status.val.v]))

(* Variant: no try/except around bot.send_message. *)
send_message_unguarded(message, delivered) ==
    IF delivered THEN Ok(PyNone) ELSE Raise("TelegramError", "Timed out")

(* Lines 46-57: bot.send_message either goes through or raises
   telegram.TelegramError, which is logged and dropped; None is returned
   both ways. *)
send_message(message, delivered) ==
    IF delivered THEN Ok(PyNone) ELSE Ok(PyNone)

(* Variant: any() in place of all(). *)
check_tokens_any(p, t, c) == Truthy(p) \/ Truthy(t) \/ Truthy(c)

check_tokens(p, t, c) == Truthy(p) /\ Truthy(t) /\ Truthy(c)

(* Variant: the cursor advances only when the answer passes validation. *)
advance_cursor_if_valid(ts, response) ==
    IF check_response(response).ok THEN dict_get(response, "current_date")
    ELSE ts

(* Line 158: the cursor takes the answer's current_date (None if absent). *)
advance_cursor(ts, response) == dict_get(response, "current_date")

(* Lines 157-159: the part of the try block that computes the message.
   Returns the cursor it leaves and the message or the exception. *)
main_try(ts, clock, api) ==
    LET response == get_api_answer(ts, clock, api)
    IN IF ~response.ok THEN [cursor |-> ts, res |-> response]
       ELSE IF response.val.t # "dict"
       THEN [cursor |-> ts,
             res |-> Raise("AttributeError", "'" \o TypeName(response.val)
                              \o "' object has no attribute 'get'")]
       ELSE LET checked == check_response(response.val)
            IN [cursor |-> advance_cursor(ts, response.val),
                res |-> IF checked.ok THEN parse_status(checked.val)
                        ELSE checked]

(* Variant: the slot keeps the first message sent instead of the last. *)
notify_if_changed_first(message, slot) ==
    [send |-> message # slot,
     slot |-> IF slot = "" THEN message ELSE slot]

(* Variant: the slot is cleared when the message is a repeat. *)
notify_if_changed_resets(message, slot) ==
    [send |-> message # slot,
     slot |-> IF message # slot THEN message ELSE ""]

(* Variant: the comparison with the slot is dropped. *)
notify_if_changed_always(message, slot) ==
    [send |-> TRUE, slot |-> message]

(* Variant: the slot is not updated after a send. *)
notify_if_changed_forgets(message, slot) ==
    [send |-> message # slot, slot |-> slot]

(* Lines 160-162 and 166-168: send when the message differs from the slot,
   and then remember it. *)
notify_if_changed(message, slot) ==
    [send |-> message # slot,
     slot |-> IF message # slot THEN message ELSE slot]

(* Variant: the except clause names the API exception only. *)
Catches_api_only(err) == err.exc = "GetApiAnswerException"

(* Line 163: `except Exception` catches every exception class raised in the
   try block (all of them derive from Exception). *)
Catches(err) == TRUE

(* Variant: the sleep sits in an else clause, skipped after a failure. *)
after_try_else(raised) == IF raised THEN "loop" ELSE "finally"

(* Lines 169-170: the finally clause runs after either branch. *)
after_try(raised) == "finally"

---------------------------------------------------------------------------
(* Inputs *)

Tokens == {PyNone, PyStr("token")}

Entry(name, status) ==
    PyDict([homework_name |-> PyStr(name), status |-> PyStr(status)])

RespApproved ==
    PyDict([homeworks |-> PyList(<<Entry("hw1", "approved")>>),
            current_date |-> PyInt(1000)])
RespTwo ==
    PyDict([homeworks |-> PyList(<<Entry("hw2", "rejected"),
                                   Entry("hw1", "approved")>>),
            current_date |-> PyInt(2000)])
RespWeird ==
    PyDict([homeworks |-> PyList(<<Entry("hw1", "weird")>>)])
RespEmpty ==
    PyDict([homeworks |-> PyList(<<>>), current_date |-> PyInt(2000)])
RespNoHomeworks == PyDict([current_date |-> PyInt(1000)])
RespNameInList ==
    PyDict([homeworks |-> PyList(<<PyStr("homework_name")>>),
            current_date |-> PyInt(0)])
RespNotDict == PyList(<<>>)

Responses == {RespApproved, RespTwo, RespWeird, RespEmpty, RespNoHomeworks,
              RespNameInList, RespNotDict}

ApiOutcomes ==
    {ApiOutcome("transport", 0, FALSE, PyNone)}
    \cup {ApiOutcome("http", c, FALSE, PyNone) : c \in {500, 404, HTTP_OK}}
    \cup {ApiOutcome("http", HTTP_OK, TRUE, r) : r \in Responses}

---------------------------------------------------------------------------
(* The state machine of main *)

Init ==
    /\ PRACTICUM_TOKEN \in Tokens
    /\ TELEGRAM_TOKEN \in Tokens
    /\ TELEGRAM_CHAT_ID \in Tokens
    /\ pc = "start"
    /\ now \in StartTimes
    /\ started_at = now
    /\ current_timestamp = PyNone
    /\ MESSAGE_STATUS = ""
    /\ ERROR_CACHE_MESSAGE = ""
    /\ pending = NoErr
    /\ slept = <<>>
    /\ hist = <<>>
    /\ call = NoCall

(* Lines 147-154.  telegram.Bot(token=None) is rejected by the library
   or not, depending on its version; either way a missing value stops main
   before the loop. *)
Startup ==
    /\ pc = "start"
    /\ \E botOk \in (IF TELEGRAM_TOKEN = PyNone THEN BOOLEAN ELSE {TRUE}) :
         pc' = IF botOk /\ check_tokens(PRACTICUM_TOKEN, TELEGRAM_TOKEN,
                                        TELEGRAM_CHAT_ID)
               THEN "loop" ELSE "aborted"
    /\ current_timestamp' = PyInt(now)
    /\ UNCHANGED <<PRACTICUM_TOKEN, TELEGRAM_TOKEN, TELEGRAM_CHAT_ID, now,
                   started_at, MESSAGE_STATUS, ERROR_CACHE_MESSAGE, pending,
                   slept, hist, call>>

(* Lines 156-168: one pass through try/except, for an answer drawn from
   `apis`.  `delivered` is whether bot.send_message goes through.  An
   exception leaving send_message in the try block would reach the except
   clause; one leaving it in the except clause would leave main after the
   finally clause. *)
PollOf(apis, maxPolls) ==
    /\ pc = "loop"
    /\ Len(hist) < maxPolls
    /\ \E api \in apis, delivered \in BOOLEAN :
         LET t == main_try(current_timestamp, now, api)
             ok == t.res.ok
             st == IF ok THEN notify_if_changed(t.res.val.v, MESSAGE_STATUS)
                   ELSE [send |-> FALSE, slot |-> MESSAGE_STATUS]
             s1 == IF st.send THEN send_message(t.res.val.v, delivered)
                   ELSE Ok(PyNone)
             tryErr == IF ~ok THEN t.res.err ELSE s1.err
             caught == tryErr # NoErr /\ Catches(tryErr)
             er == IF caught
                   THEN notify_if_changed(str_error(tryErr),
                                          ERROR_CACHE_MESSAGE)
                   ELSE [send |-> FALSE, slot |-> ERROR_CACHE_MESSAGE]
             s2 == IF er.send THEN send_message(str_error(tryErr), delivered)
                   ELSE Ok(PyNone)
             sends == (IF st.send
                       THEN <<[slot |-> "status", text |-> t.res.val.v,
                               delivered |-> delivered]>>
                       ELSE <<>>)
                      \o (IF er.send
                          THEN <<[slot |-> "error",
                                  text |-> str_error(tryErr),
                                  delivered |-> delivered]>>
                          ELSE <<>>)
             status_after == IF ok /\ s1.ok THEN st.slot ELSE MESSAGE_STATUS
             error_after == IF s2.ok THEN er.slot ELSE ERROR_CACHE_MESSAGE
         IN /\ (sends = <<>> => delivered)
            /\ current_timestamp' = t.cursor
            /\ MESSAGE_STATUS' = status_after
            /\ ERROR_CACHE_MESSAGE' = error_after
            /\ pending' = IF tryErr # NoErr /\ ~caught THEN tryErr
                          ELSE s2.err
            /\ hist' = Append(hist,
                   [api |-> api,
                    at |-> now,
                    passed |-> current_timestamp,
                    from_date |-> from_date(current_timestamp, now),
                    fetched |-> get_api_answer(current_timestamp, now, api).ok,
                    raised |-> tryErr,
                    produced |-> IF tryErr = NoErr THEN t.res.val.v
                                 ELSE str_error(tryErr),
                    cursor |-> t.cursor,
                    sends |-> sends,
                    status_before |-> MESSAGE_STATUS,
                    error_before |-> ERROR_CACHE_MESSAGE,
                    status_after |-> status_after,
                    error_after |-> error_after,
                    slept_before |-> slept])
            /\ pc' = after_try(tryErr # NoErr)
    /\ slept' = <<>>
    /\ UNCHANGED <<PRACTICUM_TOKEN, TELEGRAM_TOKEN, TELEGRAM_CHAT_ID, now,
                   started_at, call>>

Poll == PollOf(ApiOutcomes, MaxPolls)

(* Line 170: time.sleep(RETRY_TIME); an exception the except clause did
   not catch propagates out of main afterwards. *)
Sleep ==
    /\ pc = "finally"
    /\ now' = now + RETRY_TIME
    /\ slept' = Append(slept, RETRY_TIME)
    /\ pc' = IF pending = NoErr THEN "loop" ELSE "terminated"
    /\ UNCHANGED <<PRACTICUM_TOKEN, TELEGRAM_TOKEN, TELEGRAM_CHAT_ID,
                   started_at, current_timestamp, MESSAGE_STATUS,
                   ERROR_CACHE_MESSAGE, pending, hist, call>>

Next == Startup \/ Poll \/ Sleep

Spec == Init /\ [][Next]_vars

(* The same loop over more iterations, the API giving one of a few answers. *)
FewOutcomes ==
    {ApiOutcome("transport", 0, FALSE, PyNone),
     ApiOutcome("http", 500, FALSE, PyNone),
     ApiOutcome("http", 404, FALSE, PyNone),
     ApiOutcome("http", HTTP_OK, TRUE, RespApproved)}

PollFew == PollOf(FewOutcomes, MaxPollsFew)

NextFew == Startup \/ PollFew \/ Sleep

SpecFew == Init /\ [][NextFew]_vars

---------------------------------------------------------------------------
(* Reading the record of the iterations *)

(* The answer of iteration h is a dict whose 'homeworks' is a non-empty list
   whose first element is a dict with a homework_name and a status. *)
HasFirstEntry(h) ==
    /\ h.fetched
    /\ h.api.body.t = "dict"
    /\ "homeworks" \in DOMAIN h.api.body.v
    /\ h.api.body.v["homeworks"].t = "list"
    /\ Len(h.api.body.v["homeworks"].v) > 0
    /\ h.api.body.v["homeworks"].v[1].t = "dict"
    /\ {"homework_name", "status"}
           \subseteq DOMAIN h.api.body.v["homeworks"].v[1].v

FirstEntry(h) == h.api.body.v["homeworks"].v[1]

KnownStatus(e) ==
    e.v["status"].t = "str" /\ e.v["status"].v \in DOMAIN HOMEWORK_STATUSES

Is500(h) == h.api.k = "http" /\ h.api.code = 500

(* Every answer fetched so far carries an integer current_date. *)
AllDated ==
    \A j \in DOMAIN hist :
        hist[j].fetched =>
            /\ hist[j].api.body.t = "dict"
            /\ "current_date" \in DOMAIN hist[j].api.body.v
            /\ hist[j].api.body.v["current_date"].t = "int"

FetchedBefore(i) == {j \in DOMAIN hist : j < i /\ hist[j].fetched}

(* The cursor that call number i of get_api_answer should receive. *)
ExpectedCursor(i) ==
    IF FetchedBefore(i) = {} THEN PyInt(started_at)
    ELSE LET j == CHOOSE k \in FetchedBefore(i) :
                      \A m \in FetchedBefore(i) : m <= k
         IN hist[j].api.body.v["current_date"]

---------------------------------------------------------------------------
(* C1: in an iteration whose fetch succeeds with a non-empty homework list
   whose first entry has a name and a catalog status, and whose formatted
   message differs from the last-sent status message, exactly one
   notification is sent: the formatted status message of the first entry
   (with its name and verdict); the status slot becomes that message and no
   error notification is sent. *)
C1_StatusChangeNotified ==
    \A i \in DOMAIN hist :
        LET h == hist[i] IN
        (/\ HasFirstEntry(h)
         /\ KnownStatus(FirstEntry(h))
         /\ parse_status(FirstEntry(h)).val.v # h.status_before)
        => /\ Len(h.sends) = 1
           /\ h.sends[1].slot = "status"
           /\ h.sends[1].text = parse_status(FirstEntry(h)).val.v
           /\ StrContains(h.sends[1].text,
                          FirstEntry(h).v["homework_name"].v)
           /\ StrContains(h.sends[1].text,
                  HOMEWORK_STATUSES[FirstEntry(h).v["status"].v])
           /\ h.status_after = h.sends[1].text

(* C2: a message equal to the value in its de-dup slot is never sent, so no
   two consecutive status notifications are equal and no two consecutive
   error notifications are equal. *)
C2_NoRepeatedNotification ==
    /\ \A i \in DOMAIN hist : \A n \in DOMAIN hist[i].sends :
         hist[i].sends[n].text #
             (IF hist[i].sends[n].slot = "status"
              THEN hist[i].status_before ELSE hist[i].error_before)
    /\ \A i, j \in DOMAIN hist :
         (/\ i < j
          /\ hist[i].sends # <<>>
          /\ hist[j].sends # <<>>
          /\ hist[i].sends[1].slot = hist[j].sends[1].slot
          /\ \A k \in DOMAIN hist :
               (i < k /\ k < j /\ hist[k].sends # <<>>)
               => hist[k].sends[1].slot # hist[i].sends[1].slot)
         => hist[i].sends[1].text # hist[j].sends[1].text

(* C2 witness: the same failure in two iterations in a row, notified the
   first time and not the second. *)
C2_Witness ==
    \E i \in DOMAIN hist :
        /\ i + 1 \in DOMAIN hist
        /\ hist[i].sends # <<>>
        /\ hist[i + 1].raised = hist[i].raised
        /\ hist[i + 1].sends = <<>>

(* C3: HTTP 500 while the error slot does not hold that failure's string
   sends exactly one error notification containing 500; a 500 in the next
   iteration sends nothing. *)
C3_Http500NotifiedOnce ==
    \A i \in DOMAIN hist :
        (Is500(hist[i]) /\ hist[i].error_before # "Oshibka 500")
        => /\ Len(hist[i].sends) = 1
           /\ hist[i].sends[1].slot = "error"
           /\ StrContains(hist[i].sends[1].text, "500")
           /\ (i + 1 \in DOMAIN hist /\ Is500(hist[i + 1]))
              => hist[i + 1].sends = <<>>

C3_Witness ==
    \E i \in DOMAIN hist :
        /\ i + 1 \in DOMAIN hist
        /\ Is500(hist[i]) /\ Is500(hist[i + 1])
        /\ Len(hist[i].sends) = 1
        /\ hist[i + 1].sends = <<>>

(* C4: when the fetched entry has a name and a status outside the catalog,
   the failure of that iteration is UnknownStatusException and exactly one
   error notification with that error's text is sent. *)
C4_UnknownStatusSignalled ==
    \A i \in DOMAIN hist :
        (HasFirstEntry(hist[i]) /\ ~KnownStatus(FirstEntry(hist[i])))
        => /\ hist[i].raised.exc = "UnknownStatusException"
           /\ Len(hist[i].sends) = 1
           /\ hist[i].sends[1].slot = "error"
           /\ hist[i].sends[1].text = str_error(hist[i].raised)

(* C5: every failure of an iteration is caught inside the loop: once the
   loop is entered main stays in it, a failed pass being followed by the
   sleep and the sleep by the next poll. *)
C5_FailuresStayInLoop ==
    [][/\ (pc \in {"loop", "finally"}) => (pc' \in {"loop", "finally"})
       /\ (pc \in {"loop", "finally"}) => pending' = NoErr]_vars

(* C5 witness: three iterations failed with three different kinds of
   failure and the loop is ready to poll again. *)
C5_Witness ==
    /\ pc = "loop"
    /\ Len(hist) = 3
    /\ \A i \in DOMAIN hist : hist[i].raised # NoErr
    /\ Cardinality({hist[i].raised.exc : i \in DOMAIN hist}) = 3

(* C6: between two calls of get_api_answer there is exactly one sleep, of
   RETRY_TIME = 600 seconds, whichever branch the iteration took. *)
C6_OneSleepBetweenPolls ==
    /\ \A i \in DOMAIN hist : i > 1 => hist[i].slept_before = <<600>>
    /\ (pc = "loop" /\ hist # <<>>) => slept = <<600>>
    /\ (pc = "finally") => slept = <<>>

C6_Witness ==
    /\ Len(hist) >= 2
    /\ pc = "loop"
    /\ slept = <<600>>
    /\ now = started_at + 1200

(* C7: if one of the three configuration values is absent, main aborts
   before the loop: no fetch, no notification, no sleep. *)
C7_MissingConfigAborts ==
    (PyNone \in {PRACTICUM_TOKEN, TELEGRAM_TOKEN, TELEGRAM_CHAT_ID})
    => /\ pc \in {"start", "aborted"}
       /\ hist = <<>>
       /\ slept = <<>>
       /\ now = started_at

(* C7 witness: the bot token is there, another value is missing, and main
   has stopped. *)
C7_Witness ==
    /\ pc = "aborted"
    /\ TELEGRAM_TOKEN # PyNone
    /\ PyNone \in {PRACTICUM_TOKEN, TELEGRAM_CHAT_ID}

(* C8: provided every fetched answer carries an integer current_date, the
   cursor passed to each call of get_api_answer is the current_date of the
   most recent answer fetched (even if its validation failed), or the
   startup time if there is none; a failed fetch leaves the cursor alone. *)
C8_CursorFollowsLastFetch ==
    AllDated =>
        /\ \A i \in DOMAIN hist :
             /\ hist[i].passed = ExpectedCursor(i)
             /\ ~hist[i].fetched => hist[i].cursor = hist[i].passed
        /\ (pc \in {"loop", "finally"})
           => current_timestamp = ExpectedCursor(Len(hist) + 1)

(* C8 witness: an answer dated 1000 failed validation, the next fetch
   failed, and the third call received 1000. *)
C8_Witness ==
    /\ Len(hist) = 3
    /\ AllDated
    /\ hist[1].fetched /\ hist[1].raised # NoErr
    /\ ~hist[2].fetched
    /\ hist[3].passed = PyInt(1000)
    /\ hist[1].passed = PyInt(started_at)

(* C9: an answer without current_date leaves the cursor unchanged, and the
   cursor always holds an integer once main has set it. *)
C9_CursorStaysInteger ==
    /\ \A i \in DOMAIN hist :
         (/\ hist[i].fetched
          /\ hist[i].api.body.t = "dict"
          /\ "current_date" \notin DOMAIN hist[i].api.body.v)
         => hist[i].cursor = hist[i].passed
    /\ (pc \in {"loop", "finally"}) => current_timestamp.t = "int"

(* C10: when the fetch succeeds and the validated homework list is empty,
   nothing is sent and both de-dup slots keep their values. *)
C10_EmptyListIsSilent ==
    \A i \in DOMAIN hist :
        (/\ hist[i].fetched
         /\ check_response(hist[i].api.body).ok
         /\ check_response(hist[i].api.body).val = PyList(<<>>))
        => /\ hist[i].sends = <<>>
           /\ hist[i].status_after = hist[i].status_before
           /\ hist[i].error_after = hist[i].error_before

---------------------------------------------------------------------------
(* check_response and parse_status called on their own *)

EntryKeys == {"homework_name", "status", "homework_status",
              "reviewer_comment", "id"}

EntryNames == {PyStr("hw1"), PyStr("hw2")}

EntryStatuses == {PyStr("approved"), PyStr("reviewing"), PyStr("rejected"),
                  PyStr("weird"), PyStr(""), PyInt(1), PyNone, PyList(<<>>)}

(* Homework entries: any subset of the keys, any name, any status. *)
Entries ==
    {PyDict([k \in ks |-> IF k = "homework_name" THEN n
                          ELSE IF k = "status" THEN st
                          ELSE PyStr("x")]) :
        ks \in SUBSET EntryKeys, n \in EntryNames, st \in EntryStatuses}

ListEntries == {Entry("hw1", "approved"), Entry("hw2", "rejected"),
                Entry("hw1", "weird")}

HomeworkLists ==
    {PyList(l) : l \in UNION {[1..n -> ListEntries] : n \in 0..MaxEntries}}

HomeworksValues ==
    HomeworkLists
    \cup {PyStr("abc"), PyStr("homeworks"), PyInt(5), PyNone,
          PyDict([homeworks |-> PyInt(1)]), PyDict([id |-> PyInt(1)]),
          PyList(<<PyStr("homeworks")>>)}

ResponseInputs ==
    {PyDict([k \in ks |-> IF k = "homeworks" THEN hw ELSE PyInt(1000)]) :
        ks \in SUBSET {"homeworks", "current_date"}, hw \in HomeworksValues}
    \cup {PyList(<<>>), PyStr("homeworks"), PyInt(1), PyNone}

InitFn ==
    /\ PRACTICUM_TOKEN = PyStr("token")
    /\ TELEGRAM_TOKEN = PyStr("token")
    /\ TELEGRAM_CHAT_ID = PyStr("token")
    /\ pc = "call"
    /\ now \in StartTimes
    /\ started_at = now
    /\ current_timestamp = PyInt(now)
    /\ MESSAGE_STATUS = ""
    /\ ERROR_CACHE_MESSAGE = ""
    /\ pending = NoErr
    /\ slept = <<>>
    /\ hist = <<>>
    /\ call = NoCall

CallParseStatus ==
    /\ pc = "call"
    /\ \E homework \in Entries :
         call' = [fn |-> "parse_status", arg |-> homework,
                  res |-> parse_status(homework)]
    /\ UNCHANGED <<PRACTICUM_TOKEN, TELEGRAM_TOKEN, TELEGRAM_CHAT_ID, pc,
                   now, started_at, current_timestamp, MESSAGE_STATUS,
                   ERROR_CACHE_MESSAGE, pending, slept, hist>>

CallCheckResponse ==
    /\ pc = "call"
    /\ \E response \in ResponseInputs :
         call' = [fn |-> "check_response", arg |-> response,
                  res |-> check_response(response)]
    /\ UNCHANGED <<PRACTICUM_TOKEN, TELEGRAM_TOKEN, TELEGRAM_CHAT_ID, pc,
                   now, started_at, current_timestamp, MESSAGE_STATUS,
                   ERROR_CACHE_MESSAGE, pending, slept, hist>>

NextFn == CallParseStatus \/ CallCheckResponse

SpecFn == InitFn /\ [][NextFn]_vars

---------------------------------------------------------------------------
(* The branch iteration h took and the de-dup slot that branch compares. *)
Branch(h) == IF h.raised = NoErr THEN "status" ELSE "error"

SlotBefore(h) == IF h.raised = NoErr THEN h.status_before ELSE h.error_before

SentOnce(h) ==
    /\ Len(h.sends) = 1
    /\ h.sends[1].slot = Branch(h)
    /\ h.sends[1].text = h.produced

(* Iterations i, i+1, i+2 take the same branch and produce A, B, A. *)
ProducesABA(i) ==
    /\ i + 2 \in DOMAIN hist
    /\ Branch(hist[i]) = Branch(hist[i + 1])
    /\ Branch(hist[i]) = Branch(hist[i + 2])
    /\ hist[i].produced # hist[i + 1].produced
    /\ hist[i].produced = hist[i + 2].produced

(* C11 as stated: three consecutive iterations of one branch producing A,
   B, A (A # B) cause exactly three sends, A, B, A. *)
C11_ABASendsThree ==
    \A i \in DOMAIN hist :
        ProducesABA(i)
        => SentOnce(hist[i]) /\ SentOnce(hist[i + 1]) /\ SentOnce(hist[i + 2])

(* C11 amended: three consecutive iterations of one branch producing A, B,
   A (A # B), the slot of that branch not holding A before the first of
   them, cause exactly three sends, A, B, A. *)
C11_ABASendsThreeFromOther ==
    \A i \in DOMAIN hist :
        (ProducesABA(i) /\ SlotBefore(hist[i]) # hist[i].produced)
        => SentOnce(hist[i]) /\ SentOnce(hist[i + 1]) /\ SentOnce(hist[i + 2])

(* C11 witness: HTTP 500, 404, 500 in a row, each notified. *)
C11_Witness ==
    \E i \in DOMAIN hist :
        /\ ProducesABA(i)
        /\ Is500(hist[i]) /\ Is500(hist[i + 2])
        /\ SentOnce(hist[i]) /\ SentOnce(hist[i + 1]) /\ SentOnce(hist[i + 2])

(* The call recorded is parse_status on an entry with a name and a status. *)
ParsedEntry ==
    /\ call.fn = "parse_status"
    /\ call.arg.t = "dict"
    /\ {"homework_name", "status"} \subseteq DOMAIN call.arg.v

(* C12: for every entry with a homework_name and a status that is a key of
   HOMEWORK_STATUSES, whatever its other fields, parse_status raises nothing
   and returns the template string with the entry's name and the verdict of
   its status. *)
C12_KnownStatusFormatted ==
    (ParsedEntry /\ KnownStatus(call.arg))
    => /\ call.res.ok
       /\ call.res.val =
              PyStr("Izmenilsya status proverki raboty \""
                    \o call.arg.v["homework_name"].v \o "\". "
                    \o HOMEWORK_STATUSES[call.arg.v["status"].v])
       /\ StrContains(call.res.val.v, call.arg.v["homework_name"].v)
       /\ StrContains(call.res.val.v,
                      HOMEWORK_STATUSES[call.arg.v["status"].v])

(* The call recorded is check_response on a mapping. *)
CheckedDict == call.fn = "check_response" /\ call.arg.t = "dict"

(* C13: for every mapping without the 'homeworks' key check_response
   signals a missing-field error (KeyError). *)
C13_MissingHomeworksIsKeyError ==
    (CheckedDict /\ "homeworks" \notin DOMAIN call.arg.v)
    => ~call.res.ok /\ call.res.err.exc = "KeyError"

(* C14: for every mapping whose 'homeworks' is a list of homework entries,
   possibly empty, check_response raises nothing and returns that list
   unchanged, same entries in the same order and count. *)
C14_EntryListReturned ==
    (/\ CheckedDict
     /\ "homeworks" \in DOMAIN call.arg.v
     /\ call.arg.v["homeworks"].t = "list"
     /\ \A n \in DOMAIN call.arg.v["homeworks"].v :
            call.arg.v["homeworks"].v[n].t = "dict")
    => /\ call.res.ok
       /\ call.res.val.t = "list"
       /\ Len(call.res.val.v) = Len(call.arg.v["homeworks"].v)
       /\ \A n \in DOMAIN call.res.val.v :
              call.res.val.v[n] = call.arg.v["homeworks"].v[n]

(* C14 witness: a list of two different entries was checked and returned. *)
C14_Witness ==
    /\ CheckedDict
    /\ "homeworks" \in DOMAIN call.arg.v
    /\ call.arg.v["homeworks"] =
           PyList(<<Entry("hw2", "rejected"), Entry("hw1", "approved")>>)
    /\ call.res.ok
    /\ call.res.val.v[1] = Entry("hw2", "rejected")

(* C15: for every mapping whose 'homeworks' is present but not a list, and
   for every response that is not a mapping, check_response signals a shape
   error (TypeError). *)
C15_WrongShapeIsTypeError ==
    (/\ call.fn = "check_response"
     /\ \/ call.arg.t # "dict"
        \/ /\ "homeworks" \in DOMAIN call.arg.v
           /\ call.arg.v["homeworks"].t # "list")
    => ~call.res.ok /\ call.res.err.exc = "TypeError"

(* C16: for every entry with a homework_name and a status that is not a key
   of HOMEWORK_STATUSES, parse_status signals UnknownStatusException,
   returns no string and changes no state. *)
C16_UnknownStatusRaises ==
    (ParsedEntry /\ ~KnownStatus(call.arg))
    => /\ ~call.res.ok
       /\ call.res.err.exc = "UnknownStatusException"
       /\ call.res.val = PyNone
       /\ MESSAGE_STATUS = "" /\ ERROR_CACHE_MESSAGE = "" /\ hist = <<>>

(* The value of the slot of iteration h's branch after the iteration. *)
SlotAfter(h) == IF h.raised = NoErr THEN h.status_after ELSE h.error_after

(* C17: a transport error of the bot's send does not leave send_message:
   the iteration ends as with a delivered send (one send, slot set to the
   message, nothing left to propagate) and the loop goes on. *)
C17_SendFailureSwallowed ==
    /\ pending = NoErr
    /\ pc # "terminated"
    /\ \A i \in DOMAIN hist :
         (hist[i].sends # <<>> /\ ~hist[i].sends[1].delivered)
         => /\ SentOnce(hist[i])
            /\ SlotAfter(hist[i]) = hist[i].sends[1].text
            /\ hist[i].raised.exc # "TelegramError"

(* C17 witness: a send failed and the loop went on to the next poll. *)
C17_Witness ==
    \E i \in DOMAIN hist :
        /\ i + 1 \in DOMAIN hist
        /\ hist[i].sends # <<>>
        /\ ~hist[i].sends[1].delivered

(* C18: a transport failure of the HTTP request is signalled as
   GetApiAnswerException, like a non-200 status, and an unparseable body as
   a different, decode failure. *)
C18_TransportIsFetchFailure ==
    \A i \in DOMAIN hist :
        /\ hist[i].api.k = "transport"
           => hist[i].raised.exc = "GetApiAnswerException"
        /\ (hist[i].api.k = "http" /\ hist[i].api.code # HTTP_OK)
           => hist[i].raised.exc = "GetApiAnswerException"
        /\ (hist[i].api.k = "http" /\ hist[i].api.code = HTTP_OK
            /\ ~hist[i].api.parses)
           => hist[i].raised.exc \notin {"", "GetApiAnswerException"}

(* C19: the two slots are independent and never reset: the success branch
   leaves the error slot alone, the failure branch the status slot, a slot
   changes only to a message just sent and keeps its value between
   iterations; an error E sent before a run of successful polls is not sent
   again when E recurs. *)
C19_SlotsIndependent ==
    /\ \A i \in DOMAIN hist :
         /\ Branch(hist[i]) = "status"
            => hist[i].error_after = hist[i].error_before
         /\ Branch(hist[i]) = "error"
            => hist[i].status_after = hist[i].status_before
         /\ SlotAfter(hist[i]) # SlotBefore(hist[i])
            => SentOnce(hist[i]) /\ SlotAfter(hist[i]) = hist[i].produced
         /\ i + 1 \in DOMAIN hist
            => /\ hist[i + 1].error_before = hist[i].error_after
               /\ hist[i + 1].status_before = hist[i].status_after
    /\ hist # <<>>
       => /\ ERROR_CACHE_MESSAGE = hist[Len(hist)].error_after
          /\ MESSAGE_STATUS = hist[Len(hist)].status_after
    /\ \A i, j \in DOMAIN hist :
         (/\ i < j
          /\ Branch(hist[i]) = "error" /\ Branch(hist[j]) = "error"
          /\ hist[i].error_after = hist[i].produced
          /\ hist[j].produced = hist[i].produced
          /\ \A k \in DOMAIN hist :
               (i < k /\ k < j) => Branch(hist[k]) = "status")
         => hist[j].sends = <<>>

(* C19 witness: a failed iteration sent its error and left the status slot
   alone, the sleep kept both slots, and the error recurred unsent. *)
C19_Witness ==
    /\ pc = "loop"
    /\ \E i \in DOMAIN hist :
        /\ i + 1 \in DOMAIN hist
        /\ Branch(hist[i]) = "error"
        /\ SentOnce(hist[i])
        /\ hist[i].status_after = hist[i].status_before
        /\ hist[i + 1].produced = hist[i].produced
        /\ hist[i + 1].sends = <<>>
        /\ ERROR_CACHE_MESSAGE = hist[Len(hist)].error_after

(* C20: when a send fails with a transport error the slot is still set to
   the message, and the same message produced in the following iteration is
   not sent. *)
C20_FailedSendNotRetried ==
    \A i \in DOMAIN hist :
        (hist[i].sends # <<>> /\ ~hist[i].sends[1].delivered)
        => /\ SlotAfter(hist[i]) = hist[i].produced
           /\ (/\ i + 1 \in DOMAIN hist
               /\ Branch(hist[i + 1]) = Branch(hist[i])
               /\ hist[i + 1].produced = hist[i].produced)
              => hist[i + 1].sends = <<>>

(* C20 witness: the only send of a message failed and the same message
   came again in the next iteration. *)
C20_Witness ==
    \E i \in DOMAIN hist :
        /\ i + 1 \in DOMAIN hist
        /\ hist[i].sends # <<>> /\ ~hist[i].sends[1].delivered
        /\ hist[i + 1].produced = hist[i].produced
        /\ hist[i + 1].sends = <<>>

=============================================================================
